---- MODULE Spec2Model ----
(***************************************************************************)
(* Preculture dilution protocols of the repository:                        *)
(*   src/preculture_dilution_by_pipette.py  (protocol "by_pipette")        *)
(*   src/preculture_dilution.py             (protocol "dilution")          *)
(* One behaviour of the model is one call of run(protocol) of one of the   *)
(* two files on one plate reading.  The robot (opentrons) is the hardware  *)
(* collaborator: its state is the rail light, what is loaded, and which    *)
(* pipette holds a tip; every pipette operation may fail and raise.        *)
(***************************************************************************)
EXTENDS Integers, Sequences, FiniteSets, TLC

VARIABLES
    protocol_file,                 \* which of the two files is being run
    preculture_ODs,                \* the plate reading, [Cells -> rational]
    rail_lights,                   \* protocol.set_rail_lights state
    loaded,                        \* labware and instruments are loaded
    preculture_transfer_volumes,   \* [Cells -> rational], after process_OD_inputs
    media_tranfer_volumes,         \* [Cells -> rational], after process_OD_inputs
    pc,                            \* position in run
    call,                          \* by_pipette: index of the transfer_to_target call
    pip,                           \* by_pipette: index in [pipette_p10, pipette_p300]
    cell,                          \* index of the (row, col) loop, row-major
    has_tip,                       \* [Pipettes -> BOOLEAN], InstrumentContext.has_tip
    raised,                        \* the exception that ended run, or "none"
    trace                          \* the pipette operations requested so far

vars == <<protocol_file, preculture_ODs, rail_lights, loaded,
          preculture_transfer_volumes, media_tranfer_volumes,
          pc, call, pip, cell, has_tip, raised, trace>>

----------------------------------------------------------------------------
(* Rational numbers: the volumes and ODs are floats in the code; the model  *)
(* computes with exact fractions n/d, d >= 0, in lowest terms.  d = 0 is    *)
(* an infinity (only a division that does not raise could produce it).      *)

Abs(x) == IF x < 0 THEN -x ELSE x

RECURSIVE Gcd(_, _)
Gcd(a, b) == IF b = 0 THEN a ELSE Gcd(b, a % b)

Norm(n, d) ==
    LET s == IF d < 0 THEN -1 ELSE 1
        g == Gcd(Abs(n), Abs(d))
    IN  IF g = 0 THEN [n |-> 0, d |-> 1]
        ELSE [n |-> (s * n) \div g, d |-> (s * d) \div g]

R(n, d)    == Norm(n, d)
Int2R(i)   == [n |-> i, d |-> 1]
RMul(a, b) == Norm(a.n * b.n, a.d * b.d)
RDiv(a, b) == Norm(a.n * b.d, a.d * b.n)
RSub(a, b) == Norm(a.n * b.d - b.n * a.d, a.d * b.d)
RLt(a, b)  == a.n * b.d < b.n * a.d
RLeq(a, b) == a.n * b.d <= b.n * a.d
Zero       == Int2R(0)

----------------------------------------------------------------------------
(* Module-level constants of both files.                                    *)

\* columns of the plate the model keeps (the code has 12)
NumCols == 2

target_OD     == R(5, 100)
target_volume == Int2R(150)

\* the first letters of rows = ["A", ..., "H"]
rows == <<"A", "B">>
\* cols = list(range(12)), cut to NumCols columns
cols == [i \in 1..NumCols |-> i - 1]

Cells == {<<rows[i], cols[j]>> : i \in 1..Len(rows), j \in 1..Len(cols)}

\* the order of "for row in rows: for col in cols", as a 1-based index
NumCells == Len(rows) * Len(cols)
CellAt(k) == <<rows[((k - 1) \div Len(cols)) + 1], cols[((k - 1) % Len(cols)) + 1]>>
IndexOf(c) == CHOOSE k \in 1..NumCells : CellAt(k) = c

Pipettes == {"pipette_p10", "pipette_p300"}

p300_min_transfer_volume == 30

\* the ranges the files state for the pipettes: "# 1 - 10 uL" for the p10
\* (p10_max_transfer_volume = 10 in preculture_dilution.py, never read) and
\* "# 30 - 300 uL" for the p300
p10_max_transfer_volume == 10
p300_max_transfer_volume == 300

\* tips in one tip rack: as many as the plate has wells (96 in the code)
TipRackSize == NumCells

\* tips loaded for a pipette: tip_racks=[tiprack_20ul] for the p10 and
\* [tiprack_300ul, tiprack_300ul_2] for the p300 in the by_pipette file,
\* [tiprack20] and [tiprack300] in the dilution file
TipsLoaded(file, p) ==
    IF file = "by_pipette" /\ p = "pipette_p300" THEN 2 * TipRackSize ELSE TipRackSize

\* plate readings a cell can hold: a negative one, zero, target_OD (150 of
\* preculture, no media), 1/16 (120 of preculture, 30 of media) and 1/2 (15
\* of preculture, 135 of media); on these the float arithmetic is exact
ODValues == {R(-1, 10), R(0, 1), R(1, 20), R(1, 16), R(1, 2)}

----------------------------------------------------------------------------
(* The dilution planner: get_transfer_volume and process_OD_inputs.         *)

\* a division that yields inf on a zero divisor instead of raising
ZeroDivisionError_inf(preculture_OD) == FALSE

\* target_volume * target_OD / preculture_OD on Python floats (applymap hands
\* the function each cell as a Python float): a zero divisor raises
ZeroDivisionError(preculture_OD) == preculture_OD.n = 0

\* the quotient taken the wrong way round (haben / wollen)
get_transfer_volume_inverted(preculture_OD) ==
    RDiv(RMul(target_volume, preculture_OD), target_OD)

get_transfer_volume(preculture_OD) ==
    RDiv(RMul(target_volume, target_OD), preculture_OD)

\* "if np.any(preculture_ODs < 0): raise ValueError", by_pipette only
NegativeCheck(file, ODs) ==
    file = "by_pipette" /\ \E c \in Cells : RLt(ODs[c], Zero)

PrecultureVolumes(ODs) == [c \in Cells |-> get_transfer_volume(ODs[c])]

\* target_volume - preculture volume, then .where(> 0, other=0)
MediaVolumes(pre) ==
    [c \in Cells |->
        LET m == RSub(target_volume, pre[c])
        IN  IF RLt(Zero, m) THEN m ELSE Zero]

\* the exception process_OD_inputs raises on the reading, or "none"
process_OD_inputs(file, ODs) ==
    IF NegativeCheck(file, ODs) THEN "ValueError"
    ELSE IF \E c \in Cells : ZeroDivisionError(ODs[c]) THEN "ZeroDivisionError"
    ELSE "none"

----------------------------------------------------------------------------
(* The hardware collaborator: pipette operations.  Each operation yields a  *)
(* set of outcomes [ok, tip, events]: whether it returned, whether the      *)
(* pipette holds a tip afterwards, and the operations it appended to the    *)
(* trace.  Any operation can fail (raise) at any of its steps.              *)

NoCell == <<"-", 0>>

\* one requested pipette operation: pass names the plate the liquid comes
\* from (media_wells or preculture_wells), cell the source well and target
\* the well of target_wells
Ev(op, p, pass, source, target, v) ==
    [op |-> op, pipette |-> p, pass |-> pass, cell |-> source, target |-> target,
     volume |-> v]

pick_up_tip(p, pass) ==
    { [ok |-> TRUE,  tip |-> TRUE, events |-> <<Ev("pick_up_tip", p, pass, NoCell, NoCell, Zero)>>],
      [ok |-> FALSE, tip |-> has_tip[p], events |-> <<>>] }

drop_tip(p, pass) ==
    { [ok |-> TRUE,  tip |-> FALSE, events |-> <<Ev("drop_tip", p, pass, NoCell, NoCell, Zero)>>],
      [ok |-> FALSE, tip |-> has_tip[p], events |-> <<>>] }

\* pipette.transfer(volume, source, target, new_tip): with "always" the
\* pipette picks up a tip, moves the liquid and drops the tip; with "never"
\* it moves the liquid with the tip it holds and fails if it holds none
transfer(p, pass, source, target, v, new_tip) ==
    LET pick == Ev("pick_up_tip", p, pass, NoCell, NoCell, Zero)
        move == Ev("move", p, pass, source, target, v)
        drop == Ev("drop_tip", p, pass, NoCell, NoCell, Zero)
    IN  IF new_tip = "always"
        THEN { [ok |-> TRUE,  tip |-> FALSE, events |-> <<pick, move, drop>>],
               [ok |-> FALSE, tip |-> has_tip[p], events |-> <<>>],
               [ok |-> FALSE, tip |-> TRUE, events |-> <<pick>>],
               [ok |-> FALSE, tip |-> TRUE, events |-> <<pick, move>>] }
        ELSE IF has_tip[p]
        THEN { [ok |-> TRUE,  tip |-> TRUE, events |-> <<move>>],
               [ok |-> FALSE, tip |-> TRUE, events |-> <<>>] }
        ELSE { [ok |-> FALSE, tip |-> FALSE, events |-> <<>>] }

\* the effect of one outcome o of an operation of pipette p on the hardware
Perform(p, o) ==
    /\ has_tip' = [has_tip EXCEPT ![p] = o.tip]
    /\ trace' = trace \o o.events

\* an operation that raised ends run
Raise(e) ==
    /\ raised' = e
    /\ pc' = "raised"

----------------------------------------------------------------------------
(* run of both files, up to the volumes.                                    *)

ZeroGrid == [c \in Cells |-> Zero]

Init ==
    /\ protocol_file \in {"by_pipette", "dilution"}
    /\ preculture_ODs \in [Cells -> ODValues]
    /\ rail_lights = FALSE
    /\ loaded = FALSE
    /\ preculture_transfer_volumes = ZeroGrid
    /\ media_tranfer_volumes = ZeroGrid
    /\ pc = "set_rail_lights"
    /\ call = 1
    /\ pip = 1
    /\ cell = 1
    /\ has_tip = [p \in Pipettes |-> FALSE]
    /\ raised = "none"
    /\ trace = <<>>

\* protocol.set_rail_lights(True)
SetRailLightsOn ==
    /\ pc = "set_rail_lights"
    /\ rail_lights' = TRUE
    /\ pc' = "load"
    /\ UNCHANGED <<protocol_file, preculture_ODs, loaded, preculture_transfer_volumes,
                   media_tranfer_volumes, call, pip, cell, has_tip, raised, trace>>

\* load_labware for the plates and tip racks, load_instrument for both pipettes
LoadHardware ==
    /\ pc = "load"
    /\ loaded' = TRUE
    /\ pc' = "process_OD_inputs"
    /\ UNCHANGED <<protocol_file, preculture_ODs, rail_lights, preculture_transfer_volumes,
                   media_tranfer_volumes, call, pip, cell, has_tip, raised, trace>>

\* preculture_transfer_volumes, media_tranfer_volumes = process_OD_inputs()
ProcessODInputs ==
    /\ pc = "process_OD_inputs"
    /\ LET e == process_OD_inputs(protocol_file, preculture_ODs)
           pre == PrecultureVolumes(preculture_ODs)
       IN  IF e # "none"
           THEN /\ Raise(e)
                /\ UNCHANGED <<preculture_transfer_volumes, media_tranfer_volumes>>
           ELSE /\ preculture_transfer_volumes' = pre
                /\ media_tranfer_volumes' = MediaVolumes(pre)
                /\ pc' = IF protocol_file = "by_pipette" THEN "applicable" ELSE "pick_p10"
                /\ UNCHANGED raised
    /\ UNCHANGED <<protocol_file, preculture_ODs, rail_lights, loaded,
                   call, pip, cell, has_tip, trace>>

----------------------------------------------------------------------------
(* preculture_dilution_by_pipette.py: transfer_to_target and its two calls. *)

\* the two calls made in the opposite order
CallOrder_swapped == <<"preculture", "media">>

\* transfer_to_target(media_tranfer_volumes, media_wells, new_tip="never")
\* then transfer_to_target(preculture_transfer_volumes, preculture_wells,
\* new_tip="always")
CallOrder == <<"media", "preculture">>

\* both calls made with new_tip = "never"
new_tip_of_never(pass) == "never"

new_tip_of(pass) == IF pass = "media" THEN "never" ELSE "always"

\* both calls handed the media grid
volumes_of_media(pass) == media_tranfer_volumes

volumes_of(pass) ==
    IF pass = "media" THEN media_tranfer_volumes ELSE preculture_transfer_volumes

\* the pipette loop taking the p300 first
PipetteOrder_swapped == <<"pipette_p300", "pipette_p10">>

\* for pipette in [pipette_p10, pipette_p300]
PipetteOrder == <<"pipette_p10", "pipette_p300">>

\* the p300 taking the threshold volume as well (<= for <)
pipette_applicable_overlap(p, volume) ==
    IF p = "pipette_p10"
    THEN RLt(Zero, volume) /\ RLeq(volume, Int2R(p300_min_transfer_volume))
    ELSE RLeq(Int2R(p300_min_transfer_volume), volume)

\* the p10 leaving the threshold volume out (< for <=)
pipette_applicable_gap(p, volume) ==
    IF p = "pipette_p10"
    THEN RLt(Zero, volume) /\ RLt(volume, Int2R(p300_min_transfer_volume))
    ELSE RLt(Int2R(p300_min_transfer_volume), volume)

\* the p10 taking every positive volume (the upper end forgotten)
pipette_applicable_no_upper(p, volume) ==
    IF p = "pipette_p10"
    THEN RLt(Zero, volume)
    ELSE RLt(Int2R(p300_min_transfer_volume), volume)

\* the p10 taking the volume 0 as well (<= for < at the lower end)
pipette_applicable_zero(p, volume) ==
    IF p = "pipette_p10"
    THEN RLeq(Zero, volume) /\ RLeq(volume, Int2R(p300_min_transfer_volume))
    ELSE RLt(Int2R(p300_min_transfer_volume), volume)

\* the lambda bound for the pipette of the current iteration
pipette_applicable(p, volume) ==
    IF p = "pipette_p10"
    THEN RLt(Zero, volume) /\ RLeq(volume, Int2R(p300_min_transfer_volume))
    ELSE RLt(Int2R(p300_min_transfer_volume), volume)

\* the pipette never skipped
AnyApplicable_true(p, volumes) == TRUE

\* np.any(pipette_applicable(volumes))
AnyApplicable(p, volumes) == \E c \in Cells : pipette_applicable(p, volumes[c])

\* a test that is always true (has_tip read as a bound method)
HoldsTip_always(p) == TRUE

\* if pipette.has_tip
HoldsTip(p) == has_tip[p]

\* the end of one iteration of the pipette loop, and of one call
NextPipette ==
    IF pip < Len(PipetteOrder)
    THEN pip' = pip + 1 /\ pc' = "applicable" /\ UNCHANGED call
    ELSE IF call < Len(CallOrder)
    THEN pip' = 1 /\ call' = call + 1 /\ pc' = "applicable"
    ELSE pc' = "home" /\ UNCHANGED <<pip, call>>

\* "if not np.any(pipette_applicable(volumes)): continue"
Applicable ==
    /\ pc = "applicable"
    /\ LET pass == CallOrder[call]
           p == PipetteOrder[pip]
       IN  IF ~AnyApplicable(p, volumes_of(pass))
           THEN NextPipette /\ UNCHANGED cell
           ELSE /\ pc' = IF new_tip_of(pass) = "never" THEN "pick_up_tip" ELSE "loop"
                /\ cell' = 1
                /\ UNCHANGED <<pip, call>>
    /\ UNCHANGED <<protocol_file, preculture_ODs, rail_lights, loaded,
                   preculture_transfer_volumes, media_tranfer_volumes,
                   has_tip, raised, trace>>

\* "if new_tip == 'never': pipette.pick_up_tip()"
PickUpTip ==
    /\ pc = "pick_up_tip"
    /\ \E o \in pick_up_tip(PipetteOrder[pip], CallOrder[call]) :
          /\ Perform(PipetteOrder[pip], o)
          /\ IF o.ok THEN pc' = "loop" /\ UNCHANGED raised ELSE Raise("HardwareError")
    /\ UNCHANGED <<protocol_file, preculture_ODs, rail_lights, loaded,
                   preculture_transfer_volumes, media_tranfer_volumes, call, pip, cell>>

\* one iteration of "for row in rows: for col in cols"
Loop ==
    /\ pc = "loop"
    /\ LET pass == CallOrder[call]
           p == PipetteOrder[pip]
           row_col == CellAt(cell)
           volume == volumes_of(pass)[row_col]
           source == row_col
           target == row_col
           next == IF cell < NumCells THEN "loop" ELSE "drop_tip"
       IN  IF ~pipette_applicable(p, volume)
           THEN /\ cell' = cell + 1
                /\ pc' = next
                /\ UNCHANGED <<has_tip, raised, trace>>
           ELSE \E o \in transfer(p, pass, source, target, volume, new_tip_of(pass)) :
                  /\ Perform(p, o)
                  /\ IF o.ok
                     THEN cell' = cell + 1 /\ pc' = next /\ UNCHANGED raised
                     ELSE Raise("HardwareError") /\ UNCHANGED cell
    /\ UNCHANGED <<protocol_file, preculture_ODs, rail_lights, loaded,
                   preculture_transfer_volumes, media_tranfer_volumes, call, pip>>

\* "if pipette.has_tip: pipette.drop_tip()"
DropTip ==
    /\ pc = "drop_tip"
    /\ LET p == PipetteOrder[pip]
       IN  IF HoldsTip(p)
           THEN \E o \in drop_tip(p, CallOrder[call]) :
                  /\ Perform(p, o)
                  /\ IF o.ok
                     THEN NextPipette /\ UNCHANGED raised
                     ELSE Raise("HardwareError") /\ UNCHANGED <<pip, call>>
           ELSE NextPipette /\ UNCHANGED <<has_tip, raised, trace>>
    /\ UNCHANGED <<protocol_file, preculture_ODs, rail_lights, loaded,
                   preculture_transfer_volumes, media_tranfer_volumes, cell>>

\* protocol.home()
Home ==
    /\ pc = "home"
    /\ pc' = "lights_off"
    /\ UNCHANGED <<protocol_file, preculture_ODs, rail_lights, loaded,
                   preculture_transfer_volumes, media_tranfer_volumes,
                   call, pip, cell, has_tip, raised, trace>>

\* protocol.set_rail_lights(False)
SetRailLightsOff ==
    /\ pc = "lights_off"
    /\ rail_lights' = FALSE
    /\ pc' = "done"
    /\ UNCHANGED <<protocol_file, preculture_ODs, loaded, preculture_transfer_volumes,
                   media_tranfer_volumes, call, pip, cell, has_tip, raised, trace>>

----------------------------------------------------------------------------
(* preculture_dilution.py: run, which holds both loops inline.              *)

\* np.any(media_tranfer_volumes < p300_min_transfer_volume)
NeedP10(volumes) ==
    \E c \in Cells : RLt(volumes[c], Int2R(p300_min_transfer_volume))

\* np.any(media_tranfer_volumes >= p300_min_transfer_volume)
NeedP300(volumes) ==
    \E c \in Cells : RLeq(Int2R(p300_min_transfer_volume), volumes[c])

\* pipette_p300 if media_volume >= p300_min_transfer_volume else pipette_p10
media_pipette(media_volume) ==
    IF RLeq(Int2R(p300_min_transfer_volume), media_volume)
    THEN "pipette_p300" ELSE "pipette_p10"

\* pipette_p300 if preculture_volume > p300_min_transfer_volume else pipette_p10
preculture_pipette(preculture_volume) ==
    IF RLt(Int2R(p300_min_transfer_volume), preculture_volume)
    THEN "pipette_p300" ELSE "pipette_p10"

\* "if np.any(media_tranfer_volumes < 30): pipette_p10.pick_up_tip()"
PickUpTipP10 ==
    /\ pc = "pick_p10"
    /\ IF NeedP10(media_tranfer_volumes)
       THEN \E o \in pick_up_tip("pipette_p10", "media") :
              /\ Perform("pipette_p10", o)
              /\ IF o.ok THEN pc' = "pick_p300" /\ UNCHANGED raised
                 ELSE Raise("HardwareError")
       ELSE pc' = "pick_p300" /\ UNCHANGED <<has_tip, raised, trace>>
    /\ UNCHANGED <<protocol_file, preculture_ODs, rail_lights, loaded,
                   preculture_transfer_volumes, media_tranfer_volumes, call, pip, cell>>

\* "if np.any(media_tranfer_volumes >= 30): pipette_p300.pick_up_tip()"
PickUpTipP300 ==
    /\ pc = "pick_p300"
    /\ IF NeedP300(media_tranfer_volumes)
       THEN \E o \in pick_up_tip("pipette_p300", "media") :
              /\ Perform("pipette_p300", o)
              /\ IF o.ok THEN pc' = "media_loop" /\ UNCHANGED raised
                 ELSE Raise("HardwareError")
       ELSE pc' = "media_loop" /\ UNCHANGED <<has_tip, raised, trace>>
    /\ UNCHANGED <<protocol_file, preculture_ODs, rail_lights, loaded,
                   preculture_transfer_volumes, media_tranfer_volumes, call, pip, cell>>

\* one iteration of the media loop: skip media_volume <= 0, else transfer
\* with new_tip = "never"
MediaLoop ==
    /\ pc = "media_loop"
    /\ LET c == CellAt(cell)
           media_volume == media_tranfer_volumes[c]
           pipette == media_pipette(media_volume)
           next == IF cell < NumCells THEN "media_loop" ELSE "drop_p10"
           nextcell == IF cell < NumCells THEN cell + 1 ELSE 1
       IN  IF RLeq(media_volume, Zero)
           THEN /\ cell' = nextcell
                /\ pc' = next
                /\ UNCHANGED <<has_tip, raised, trace>>
           ELSE \E o \in transfer(pipette, "media", c, c, media_volume, "never") :
                  /\ Perform(pipette, o)
                  /\ IF o.ok
                     THEN cell' = nextcell /\ pc' = next /\ UNCHANGED raised
                     ELSE Raise("HardwareError") /\ UNCHANGED cell
    /\ UNCHANGED <<protocol_file, preculture_ODs, rail_lights, loaded,
                   preculture_transfer_volumes, media_tranfer_volumes, call, pip>>

\* "if pipette_p10.has_tip(): pipette_p10.drop_tip()".  has_tip is called
\* here, while it is read as an attribute in the by_pipette file: where the
\* collaborator exposes it as a property (opentrons apiLevel >= 2.7) the call
\* raises TypeError, where it exposes a method the call returns the tip state
DropTipP10 ==
    /\ pc = "drop_p10"
    /\ \/ /\ Raise("TypeError")
          /\ UNCHANGED <<has_tip, trace>>
       \/ IF has_tip["pipette_p10"]
          THEN \E o \in drop_tip("pipette_p10", "media") :
                 /\ Perform("pipette_p10", o)
                 /\ IF o.ok THEN pc' = "drop_p300" /\ UNCHANGED raised
                    ELSE Raise("HardwareError")
          ELSE pc' = "drop_p300" /\ UNCHANGED <<has_tip, raised, trace>>
    /\ UNCHANGED <<protocol_file, preculture_ODs, rail_lights, loaded,
                   preculture_transfer_volumes, media_tranfer_volumes, call, pip, cell>>

\* "if pipette_p300.has_tip(): pipette_p300.drop_tip()", reached only where
\* the call on the line before returned
DropTipP300 ==
    /\ pc = "drop_p300"
    /\ IF has_tip["pipette_p300"]
       THEN \E o \in drop_tip("pipette_p300", "media") :
              /\ Perform("pipette_p300", o)
              /\ IF o.ok THEN pc' = "preculture_loop" /\ UNCHANGED raised
                 ELSE Raise("HardwareError")
       ELSE pc' = "preculture_loop" /\ UNCHANGED <<has_tip, raised, trace>>
    /\ UNCHANGED <<protocol_file, preculture_ODs, rail_lights, loaded,
                   preculture_transfer_volumes, media_tranfer_volumes, call, pip, cell>>

\* one iteration of the preculture loop: skip preculture_volume <= 0, else
\* transfer with new_tip = "always"
PrecultureLoop ==
    /\ pc = "preculture_loop"
    /\ LET c == CellAt(cell)
           preculture_volume == preculture_transfer_volumes[c]
           pipette == preculture_pipette(preculture_volume)
           next == IF cell < NumCells THEN "preculture_loop" ELSE "lights_off"
           nextcell == IF cell < NumCells THEN cell + 1 ELSE 1
       IN  IF RLeq(preculture_volume, Zero)
           THEN /\ cell' = nextcell
                /\ pc' = next
                /\ UNCHANGED <<has_tip, raised, trace>>
           ELSE \E o \in transfer(pipette, "preculture", c, c, preculture_volume, "always") :
                  /\ Perform(pipette, o)
                  /\ IF o.ok
                     THEN cell' = nextcell /\ pc' = next /\ UNCHANGED raised
                     ELSE Raise("HardwareError") /\ UNCHANGED cell
    /\ UNCHANGED <<protocol_file, preculture_ODs, rail_lights, loaded,
                   preculture_transfer_volumes, media_tranfer_volumes, call, pip>>

Next ==
    \/ SetRailLightsOn
    \/ LoadHardware
    \/ ProcessODInputs
    \/ Applicable
    \/ PickUpTip
    \/ Loop
    \/ DropTip
    \/ Home
    \/ PickUpTipP10
    \/ PickUpTipP300
    \/ MediaLoop
    \/ DropTipP10
    \/ DropTipP300
    \/ PrecultureLoop
    \/ SetRailLightsOff

Spec == Init /\ [][Next]_vars

\* plate readings with every OD > 0: half of target_OD (300 of preculture,
\* no media), target_OD (150, no media), twice target_OD (75 and 75) and
\* ten times target_OD (15 and 135); the float quotients 7.5 / OD round to
\* these values
PositiveODValues == {R(1, 40), R(1, 20), R(1, 10), R(1, 2)}

InitVolumes ==
    /\ protocol_file \in {"by_pipette", "dilution"}
    /\ preculture_ODs \in [Cells -> PositiveODValues]
    /\ rail_lights = FALSE
    /\ loaded = FALSE
    /\ preculture_transfer_volumes = ZeroGrid
    /\ media_tranfer_volumes = ZeroGrid
    /\ pc = "set_rail_lights"
    /\ call = 1
    /\ pip = 1
    /\ cell = 1
    /\ has_tip = [p \in Pipettes |-> FALSE]
    /\ raised = "none"
    /\ trace = <<>>

\* the runs of both files on the readings with every OD > 0
SpecVolumes == InitVolumes /\ [][Next]_vars

----------------------------------------------------------------------------
(* Reading the trace.                                                       *)

Idx == 1..Len(trace)

Picks(p, k) == {i \in 1..k : trace[i].op = "pick_up_tip" /\ trace[i].pipette = p}
Drops(p, k) == {i \in 1..k : trace[i].op = "drop_tip" /\ trace[i].pipette = p}

\* tips pipette p holds after the first k operations of the trace
Balance(p, k) == Cardinality(Picks(p, k)) - Cardinality(Drops(p, k))

MoveIdx(pass) == {i \in Idx : trace[i].op = "move" /\ trace[i].pass = pass}

Passes == {"media", "preculture"}

\* by_pipette: the call of transfer_to_target for this pass has returned
CallReturned(pass) ==
    \E k \in 1..Len(CallOrder) :
        /\ CallOrder[k] = pass
        /\ \/ pc \in {"home", "lights_off", "done"}
           \/ pc # "process_OD_inputs" /\ pc # "load" /\ pc # "set_rail_lights" /\ call > k

ByPipette == protocol_file = "by_pipette"

----------------------------------------------------------------------------
(* C1: in the trace of pipette operations of a run of either file, no      *)
(* pipette picks up a tip while it holds one or drops a tip while it holds *)
(* none (per pipette, pick-ups and drops alternate, starting with a        *)
(* pick-up), and when run has completed every tip picked up was dropped.   *)
C1_TipSession ==
    /\ \A p \in Pipettes : \A k \in 0..Len(trace) : Balance(p, k) \in {0, 1}
    /\ pc = "done" => \A p \in Pipettes : Balance(p, Len(trace)) = 0

\* a completed by_pipette run in which both pipettes worked in both passes
C1_Witness ==
    /\ ByPipette
    /\ pc = "done"
    /\ \A p \in Pipettes : \A pass \in Passes :
          \E i \in Idx : /\ trace[i].op = "pick_up_tip"
                         /\ trace[i].pipette = p
                         /\ trace[i].pass = pass

InPreculturePass ==
    \/ /\ ByPipette
       /\ pc \in {"applicable", "pick_up_tip", "loop", "drop_tip"}
       /\ CallOrder[call] = "preculture"
    \/ ~ByPipette /\ pc = "preculture_loop"

(* C4: in the preculture pass of either file every transfer has its own    *)
(* tip: it is preceded by the pick-up and followed by the drop of its      *)
(* pipette; between two preculture transfers of one pipette the tip was    *)
(* dropped and a new one picked up, so that no tip serves two preculture   *)
(* wells; and between two transfers of the pass no pipette holds a tip.    *)
C4_FreshTipPerPreculture ==
    /\ \A i \in MoveIdx("preculture") :
          /\ i > 1
          /\ trace[i - 1].op = "pick_up_tip"
          /\ trace[i - 1].pipette = trace[i].pipette
          /\ i < Len(trace) => /\ trace[i + 1].op = "drop_tip"
                               /\ trace[i + 1].pipette = trace[i].pipette
    /\ \A i, j \in MoveIdx("preculture") :
          (i < j /\ trace[i].pipette = trace[j].pipette) =>
              \E k \in (i + 1)..(j - 1) :
                  trace[k].op = "drop_tip" /\ trace[k].pipette = trace[i].pipette
    /\ InPreculturePass => \A p \in Pipettes : ~has_tip[p]

\* the preculture pass of a by_pipette run, after one pipette has served two
\* different preculture wells
C4_Witness ==
    /\ ByPipette
    /\ InPreculturePass
    /\ \E i, j \in MoveIdx("preculture") :
          /\ i < j
          /\ trace[i].pipette = trace[j].pipette
          /\ trace[i].cell # trace[j].cell

\* the operations of pipette p in the media pass, as indices of the trace
MediaOps(p, op) ==
    {i \in Idx : trace[i].op = op /\ trace[i].pipette = p /\ trace[i].pass = "media"}

C6_MediaBeforePreculture ==
    /\ \A i, j \in Idx :
          (trace[i].pass = "preculture" /\ trace[j].pass = "media") => j < i
    /\ \A i \in Idx :
          trace[i].pass = "preculture" =>
              \A p \in Pipettes :
                  Cardinality(MediaOps(p, "pick_up_tip")) = Cardinality(MediaOps(p, "drop_tip"))

\* a run that made media transfers with both pipettes and then a preculture
\* transfer
C6_Witness ==
    /\ \A p \in Pipettes : MediaOps(p, "move") # {}
    /\ MoveIdx("preculture") # {}

\* the volumes of both grids, once process_OD_inputs has returned
GridVolumes ==
    {media_tranfer_volumes[c] : c \in Cells} \cup
    {preculture_transfer_volumes[c] : c \in Cells}

(* C7: for every volume v of the two grids, with the threshold 30, the     *)
(* p10 predicate of transfer_to_target is true iff 0 < v <= 30 and the     *)
(* p300 predicate iff v > 30: exactly one is true when v > 0 and none      *)
(* when v <= 0; and every transfer is made by the pipette whose predicate  *)
(* is true of its volume.                                                  *)
C7_Coverage ==
    ByPipette =>
        /\ \A v \in GridVolumes :
              LET p10 == pipette_applicable("pipette_p10", v)
                  p300 == pipette_applicable("pipette_p300", v)
              IN  /\ p10 <=> (0 < v.n /\ v.n <= 30 * v.d)
                  /\ p300 <=> (v.n > 30 * v.d)
                  /\ v.n > 0 => (p10 /\ ~p300) \/ (p300 /\ ~p10)
                  /\ v.n <= 0 => ~p10 /\ ~p300
        /\ \A i \in Idx :
              trace[i].op = "move" =>
                  /\ trace[i].pipette = "pipette_p10" =>
                        (0 < trace[i].volume.n /\ trace[i].volume.n <= 30 * trace[i].volume.d)
                  /\ trace[i].pipette = "pipette_p300" =>
                        trace[i].volume.n > 30 * trace[i].volume.d

\* a cell with OD 0.5: its media volume of 135 went with the p300, its
\* preculture volume of 15 with the p10; the grids also hold 0 and 30
C7_Witness ==
    /\ ByPipette
    /\ Zero \in GridVolumes /\ Int2R(30) \in GridVolumes
    /\ \E i, j \in Idx :
          /\ trace[i].op = "move" /\ trace[j].op = "move"
          /\ trace[i].cell = trace[j].cell
          /\ trace[i].pass = "media" /\ trace[i].volume = Int2R(135)
          /\ trace[i].pipette = "pipette_p300"
          /\ trace[j].pass = "preculture" /\ trace[j].volume = Int2R(15)
          /\ trace[j].pipette = "pipette_p10"

(* C8: a plate reading with a cell of OD 0 makes run fail in               *)
(* process_OD_inputs (the division raises, or the negative check does if   *)
(* the reading also has a negative cell), and no tip is picked up or       *)
(* dropped and no transfer is made, for that cell or any other.            *)
C8_ZeroODNoPipetting ==
    (\E c \in Cells : preculture_ODs[c] = Zero) =>
        /\ trace = <<>>
        /\ \A p \in Pipettes : ~has_tip[p]
        /\ pc \in {"set_rail_lights", "load", "process_OD_inputs", "raised"}
        /\ pc = "raised" => raised \in {"ZeroDivisionError", "ValueError"}

\* a by_pipette run that ended in the division by zero, on a reading whose
\* other cells call for transfers
C8_Witness ==
    /\ ByPipette
    /\ pc = "raised"
    /\ raised = "ZeroDivisionError"
    /\ \E c \in Cells : preculture_ODs[c] = Zero
    /\ \E c \in Cells : preculture_ODs[c] = R(1, 2)

(* C9, as claimed: when run of the by_pipette file raises the ValueError   *)
(* for a negative OD, no operation of the hardware collaborator has been   *)
(* performed: the rail light is off, nothing is loaded, no pipette         *)
(* operation was made.                                                     *)
C9_NoHardwareBeforeValueError ==
    raised = "ValueError" =>
        /\ ~rail_lights
        /\ ~loaded
        /\ trace = <<>>

VolumesReturned ==
    pc \notin {"set_rail_lights", "load", "process_OD_inputs"} /\
    raised \notin {"ValueError", "ZeroDivisionError"}

(* C12: on a reading with every OD > 0, process_OD_inputs of either file   *)
(* returns for every cell preculture volume * OD = 150 * 0.05 = 7.5 and    *)
(* media volume = 150 - preculture volume where that is positive, else 0;  *)
(* the media volume is never negative.                                     *)
C12_PlannerResult ==
    VolumesReturned =>
        \A c \in Cells :
            LET od == preculture_ODs[c]
                pre == preculture_transfer_volumes[c]
                med == media_tranfer_volumes[c]
            IN  /\ od.n > 0
                /\ 2 * pre.n * od.n = 15 * pre.d * od.d
                /\ med.n >= 0 /\ med.d > 0
                /\ IF pre.n < 150 * pre.d
                   THEN med.n * pre.d + pre.n * med.d = 150 * med.d * pre.d
                   ELSE med.n = 0

\* the grids returned for a reading with a cell at half of target_OD (300
\* of preculture, no media) and a cell at twice target_OD (75 and 75)
C12_Witness ==
    /\ VolumesReturned
    /\ \E c \in Cells : /\ preculture_ODs[c] = R(1, 40)
                         /\ preculture_transfer_volumes[c] = Int2R(300)
                         /\ media_tranfer_volumes[c] = Zero
    /\ \E c \in Cells : /\ preculture_ODs[c] = R(1, 10)
                         /\ preculture_transfer_volumes[c] = Int2R(75)
                         /\ media_tranfer_volumes[c] = Int2R(75)

\* the transfers of a pass out of the well c, as indices of the trace
MovesOf(pass, c) == {i \in MoveIdx(pass) : trace[i].cell = c}

AllODPositive == \A c \in Cells : RLt(Zero, preculture_ODs[c])

(* C14, as claimed: in the dilution file every volume v > 0 of the grids   *)
(* is routed to the same pipette by the selection of the media loop and by *)
(* the selection of the preculture loop.                                   *)
C14_SameRoutingBothPasses ==
    (~ByPipette /\ AllODPositive /\ VolumesReturned) =>
        \A v \in GridVolumes :
            RLt(Zero, v) => media_pipette(v) = preculture_pipette(v)

(* C15, as claimed: in the dilution file, on a reading with every OD > 0,  *)
(* when the media loop has ended, a pipette that picked up a tip before    *)
(* the loop has made at least one media transfer.                          *)
C15_TipOnlyWhenUsed ==
    (~ByPipette /\ AllODPositive /\ pc = "drop_p10") =>
        \A p \in Pipettes :
            MediaOps(p, "pick_up_tip") # {} => MediaOps(p, "move") # {}

\* tips pipette p has picked up so far in the run
TipsUsed(p) == Cardinality(Picks(p, Len(trace)))

(* C16: in a run of the by_pipette file, with one tip counted per pick-up  *)
(* in the media pass and one per preculture transfer, no pipette picks up  *)
(* more tips than are loaded for it: one rack for the p10, two racks for   *)
(* the p300 (a rack holding one tip per well of the plate).                *)
C16_TipBudgetByPipette ==
    ByPipette =>
        \A p \in Pipettes : TipsUsed(p) <= TipsLoaded("by_pipette", p)

\* a completed run in which the p10 used a whole rack: one tip in the media
\* pass, so that one cell had its preculture moved by the p300, and one tip
\* for the preculture of each other cell
C16_Witness ==
    /\ ByPipette
    /\ pc = "done"
    /\ MediaOps("pipette_p10", "pick_up_tip") # {}
    /\ TipsUsed("pipette_p10") = TipRackSize
    /\ \E i \in MoveIdx("preculture") : trace[i].pipette = "pipette_p300"

RAdd(a, b) == Norm(a.n * b.d + b.n * a.d, a.d * b.d)

RECURSIVE SumVolumes(_)
SumVolumes(I) ==
    IF I = {} THEN Zero
    ELSE LET i == CHOOSE j \in I : TRUE
         IN  RAdd(trace[i].volume, SumVolumes(I \ {i}))

\* the volume moved into the well c of target_wells so far
Delivered(c) == SumVolumes({i \in Idx : trace[i].op = "move" /\ trace[i].target = c})

====
